---- MODULE Spec2Model ----
(***************************************************************************)
(* Model of the keylogger event loop (src/src/main.rs, main) and of the    *)
(* helpers of src/src/input.rs it calls.  The program state is the vector  *)
(* of held keys, the "just pressed" flag and the log file; `trace` and     *)
(* `last` are history variables recording what each event made the loop    *)
(* write.                                                                  *)
(***************************************************************************)
EXTENDS Naturals, Integers, Sequences, FiniteSets

(* ------------------------------------------------------------------ *)
(* src/src/input.rs                                                   *)
(* ------------------------------------------------------------------ *)
MAX_KEYS == 127

EV_KEY == 1

KEY_RELEASE == 0

KEY_PRESS == 1

UK == "<UK>"

\* The text of key code 41, a lone grave accent in the source; that
\* character cannot be written in a string here, so the text is spelled out.
GRAVE == "<grave accent>"

KEY_NAMES ==
  << UK, "<ESC>",
     "1", "2", "3", "4", "5", "6", "7", "8", "9", "0", "-", "=",
     "<Backspace>", "<Tab>",
     "q", "w", "e", "r", "t", "y", "u", "i", "o", "p",
     "[", "]", "<Enter>", "<LCtrl>",
     "a", "s", "d", "f", "g", "h", "j", "k", "l", ";",
     "'", GRAVE, "<LShift>",
     "\\", "z", "x", "c", "v", "b", "n", "m", ",", ".", "/",
     "<RShift>",
     "<KP*>",
     "<LAlt>", "<Space>", "<CapsLock>",
     "<F1>", "<F2>", "<F3>", "<F4>", "<F5>", "<F6>", "<F7>", "<F8>", "<F9>", "<F10>",
     "<NumLock>", "<ScrollLock>",
     "<KP7>", "<KP8>", "<KP9>",
     "<KP->",
     "<KP4>", "<KP5>", "<KP6>",
     "<KP+>",
     "<KP1>", "<KP2>", "<KP3>", "<KP0>",
     "<KP.>",
     UK, UK, "\\",
     "<F11>", "<F12>",
     UK, UK, UK, UK, UK, UK, UK,
     "<KPEnter>", "<RCtrl>", "<KP/>", "<SysRq>", "<RAlt>", UK,
     "<Home>", "<Up>", "<PageUp>", "<Left>", "<Right>", "<End>", "<Down>",
     "<PageDown>", "<Insert>", "<Delete>",
     UK, UK, UK, UK, UK, UK, UK, UK, UK, UK, UK, UK, UK,
     "<LMod4>", "<RMod4>" >>

\* A range test that lets the code MAX_KEYS itself through.
KeyInTable_Inclusive(code) == code <= MAX_KEYS

\* The range test of get_key_text.
KeyInTable(code) == code < MAX_KEYS

\* KEY_NAMES[code as usize] panics when the index is past the array; the
\* table is indexed from 0 in the source, from 1 here.
IndexOutOfBounds(code) == (code + 1) \notin DOMAIN KEY_NAMES

\* get_key_text, for a code that does not make the indexing panic.
get_key_text(code) ==
  IF KeyInTable(code) THEN KEY_NAMES[code + 1] ELSE UK

\* The largest u16, the type of a key code.
MaxCode == 65535

\* A call of get_key_text: its text, or the panic of the indexing.
LookupResult(code) ==
  IF KeyInTable(code) /\ IndexOutOfBounds(code)
  THEN [code |-> code, done |-> TRUE, text |-> "", panicked |-> TRUE]
  ELSE [code |-> code, done |-> TRUE, text |-> get_key_text(code),
        panicked |-> FALSE]

is_key_event(type_) == type_ = EV_KEY

\* A classifier that takes every value other than a release for a press.
is_key_press_NotRelease(value) == value # KEY_RELEASE

is_key_press(value) == value = KEY_PRESS

is_key_release(value) == value = KEY_RELEASE

(* ------------------------------------------------------------------ *)
(* Bounds and the inputs the event stream is drawn from               *)
(* ------------------------------------------------------------------ *)
\* Number of press/release events recorded in `trace` before the run stops.
MaxEvents == 5

\* Key codes of the stream: "a", "<LShift>" and one code past the table.
Codes == {30, 42, 300}

\* Event types: EV_SYN (0) and EV_KEY (1).
Types == {0, 1}

\* Event values: release (0), press (1), auto-repeat (2).
Values == {0, 1, 2}

\* InputEvent, without the two time fields the loop never reads.
InputEvent == [type_ : Types, code : Codes, value : Values]

(* ------------------------------------------------------------------ *)
(* src/src/main.rs                                                    *)
(* ------------------------------------------------------------------ *)
\* The sign characters print_key is called with.
PressSign == "+"

ReleaseSign == "-"

PressReleaseSign == "±"

OrphanSign == "?"

\* print_key: one line of the log, the sign followed by the key's text.
\* `code` is kept beside the rendered text to tell apart keys that share
\* a text.
print_key(code, sign) ==
  [sign |-> sign, code |-> code, text |-> get_key_text(code)]

\* Option<usize>::None of Iterator::position.
None == -1

\* holding_down.iter().position(|x| *x == code): the 0-based index of the
\* first element equal to code.
position(h, code) ==
  IF \E i \in 1..Len(h) : h[i] = code
  THEN (CHOOSE i \in 1..Len(h) :
          h[i] = code /\ \A j \in 1..(i - 1) : h[j] # code) - 1
  ELSE None

\* Vec::pop
pop(h) == SubSeq(h, 1, Len(h) - 1)

\* Vec::remove(index), index 0-based
remove(h, index) ==
  SubSeq(h, 1, index) \o SubSeq(h, index + 2, Len(h))

\* Result of one iteration of the loop body.
StepResult(h, f, out, panicked) ==
  [holding_down |-> h, key_was_just_pressed |-> f, out |-> out,
   panicked |-> panicked]

\* holding_down.last().unwrap() panics on an empty vector.
Panic(h, f) == StepResult(h, f, << >>, TRUE)

\* A press branch that never writes the deferred press of the previous key.
PressStep_NoFlush(h, f, code) ==
  StepResult(Append(h, code), TRUE, << >>, FALSE)

\* A press branch that writes the key being pressed instead of the top of
\* holding_down.
PressStep_LogsSelf(h, f, code) ==
  IF f /\ h = << >>
  THEN Panic(h, f)
  ELSE StepResult(Append(h, code), TRUE,
                  IF f THEN << print_key(code, PressSign) >> ELSE << >>,
                  FALSE)

\* The press branch of the loop body (is_key_press).
PressStep(h, f, code) ==
  IF f /\ h = << >>
  THEN Panic(h, f)
  ELSE StepResult(Append(h, code), TRUE,
                  IF f THEN << print_key(h[Len(h)], PressSign) >> ELSE << >>,
                  FALSE)

\* A release branch whose out-of-order case does not write the deferred
\* press of the top key.
ReleaseStep_NoFlush(h, f, code) ==
  LET p == position(h, code) IN
  IF p = None
  THEN StepResult(h, f, << print_key(code, OrphanSign) >>, FALSE)
  ELSE IF p + 1 = Len(h)
  THEN StepResult(pop(h), FALSE,
                  << print_key(code, IF f THEN PressReleaseSign
                                          ELSE ReleaseSign) >>,
                  FALSE)
  ELSE StepResult(remove(h, p), FALSE, << print_key(code, ReleaseSign) >>,
                  FALSE)

\* A release branch that clears key_was_just_pressed on every release, the
\* orphan one included.
ReleaseStep_OrphanClears(h, f, code) ==
  LET p == position(h, code) IN
  IF p = None
  THEN StepResult(h, FALSE, << print_key(code, OrphanSign) >>, FALSE)
  ELSE IF p + 1 = Len(h)
  THEN StepResult(pop(h), FALSE,
                  << print_key(code, IF f THEN PressReleaseSign
                                          ELSE ReleaseSign) >>,
                  FALSE)
  ELSE StepResult(remove(h, p), FALSE,
                  (IF f THEN << print_key(h[Len(h)], PressSign) >> ELSE << >>)
                    \o << print_key(code, ReleaseSign) >>,
                  FALSE)

\* A release branch that clears key_was_just_pressed only when the released
\* key is the top one.
ReleaseStep_KeepsFlag(h, f, code) ==
  LET p == position(h, code) IN
  IF p = None
  THEN StepResult(h, f, << print_key(code, OrphanSign) >>, FALSE)
  ELSE IF p + 1 = Len(h)
  THEN StepResult(pop(h), FALSE,
                  << print_key(code, IF f THEN PressReleaseSign
                                          ELSE ReleaseSign) >>,
                  FALSE)
  ELSE StepResult(remove(h, p), f,
                  (IF f THEN << print_key(h[Len(h)], PressSign) >> ELSE << >>)
                    \o << print_key(code, ReleaseSign) >>,
                  FALSE)

\* A release branch whose out-of-order case leaves the released key in
\* holding_down.
ReleaseStep_NoRemove(h, f, code) ==
  LET p == position(h, code) IN
  IF p = None
  THEN StepResult(h, f, << print_key(code, OrphanSign) >>, FALSE)
  ELSE IF p + 1 = Len(h)
  THEN StepResult(pop(h), FALSE,
                  << print_key(code, IF f THEN PressReleaseSign
                                          ELSE ReleaseSign) >>,
                  FALSE)
  ELSE StepResult(h, FALSE,
                  (IF f THEN << print_key(h[Len(h)], PressSign) >> ELSE << >>)
                    \o << print_key(code, ReleaseSign) >>,
                  FALSE)

\* A release branch whose out-of-order case pops the top key instead of
\* removing the released one.
ReleaseStep_PopAlways(h, f, code) ==
  LET p == position(h, code) IN
  IF p = None
  THEN StepResult(h, f, << print_key(code, OrphanSign) >>, FALSE)
  ELSE IF p + 1 = Len(h)
  THEN StepResult(pop(h), FALSE,
                  << print_key(code, IF f THEN PressReleaseSign
                                          ELSE ReleaseSign) >>,
                  FALSE)
  ELSE StepResult(pop(h), FALSE,
                  (IF f THEN << print_key(h[Len(h)], PressSign) >> ELSE << >>)
                    \o << print_key(code, ReleaseSign) >>,
                  FALSE)

\* A release branch that clears key_was_just_pressed only in the
\* out-of-order case.
ReleaseStep_ClearsOnlyOutOfOrder(h, f, code) ==
  LET p == position(h, code) IN
  IF p = None
  THEN StepResult(h, f, << print_key(code, OrphanSign) >>, FALSE)
  ELSE IF p + 1 = Len(h)
  THEN StepResult(pop(h), f,
                  << print_key(code, IF f THEN PressReleaseSign
                                          ELSE ReleaseSign) >>,
                  FALSE)
  ELSE StepResult(remove(h, p), FALSE,
                  (IF f THEN << print_key(h[Len(h)], PressSign) >> ELSE << >>)
                    \o << print_key(code, ReleaseSign) >>,
                  FALSE)

\* The release branch of the loop body (is_key_release).
ReleaseStep(h, f, code) ==
  LET p == position(h, code) IN
  IF p = None
  THEN StepResult(h, f, << print_key(code, OrphanSign) >>, FALSE)
  ELSE IF p + 1 = Len(h)
  THEN StepResult(pop(h), FALSE,
                  << print_key(code, IF f THEN PressReleaseSign
                                          ELSE ReleaseSign) >>,
                  FALSE)
  ELSE StepResult(remove(h, p), FALSE,
                  (IF f THEN << print_key(h[Len(h)], PressSign) >> ELSE << >>)
                    \o << print_key(code, ReleaseSign) >>,
                  FALSE)

\* mem::size_of::<InputEvent>(), the length of buf.
InputEventSize == 24

\* The Err of a read, beside the byte counts of an Ok.
IoError == -2

\* What a read of the device can return: an error, end of file, a part of
\* a record, a whole record.
ReadResults == {IoError, 0, 8, InputEventSize}

\* A test of the read that only looks for the error.
ReadOk_NoSizeCheck(n) == n # IoError

\* The read returned Ok and the byte count of a whole record; anything else
\* panics.
ReadOk(n) == n # IoError /\ n = InputEventSize

\* Vec<u16>: the keys currently pressed, oldest first.
VARIABLE holding_down

\* bool: the last press has not been written to the log yet.
VARIABLE key_was_just_pressed

\* The lines appended to the log file, in order.
VARIABLE log

\* The process has died on a panic.
VARIABLE panicked

\* History: the press and release events processed, each with the lines it
\* made the loop write.
VARIABLE trace

\* History: the type and value of the last raw event read and the lines it
\* made the loop write, as a sequence of at most one record (the code of a
\* press or release is in trace).
VARIABLE last

\* What the last read of the device returned, as a sequence of at most one
\* value of ReadResults.
VARIABLE num_bytes

\* A call of get_key_text on its own: the argument, and once the call has
\* been made its result, as a sequence of at most one record.
VARIABLE lookup

\* The start of the process, from root_check to the opening of the device:
\* the inputs it runs on, the stage reached, the device file chosen and the
\* function a panic came from, as a sequence of at most one record.
VARIABLE startup

vars ==
  << holding_down, key_was_just_pressed, log, panicked, trace, last,
     num_bytes, lookup, startup >>

\* The state of the event loop.
loopvars ==
  << holding_down, key_was_just_pressed, log, panicked, trace, last,
     num_bytes >>

Init ==
  /\ holding_down = << >>
  /\ key_was_just_pressed = FALSE
  /\ log = << >>
  /\ panicked = FALSE
  /\ trace = << >>
  /\ last = << >>
  /\ num_bytes = << >>
  /\ lookup = << >>
  /\ startup = << >>

\* The loop keeps reading while the process is alive; the model stops the
\* stream after MaxEvents press and release events.
Reading == ~panicked /\ Len(trace) < MaxEvents

\* device_file.read(&mut buf) returned n and the loop goes on to the event.
Read(n) == ReadOk(n) /\ num_bytes' = << n >>

\* Book-keeping common to the two branches that act on a key.
Apply(e, kind, r) ==
  IF r.panicked
  THEN /\ panicked' = TRUE
       /\ UNCHANGED << holding_down, key_was_just_pressed, log, trace, last,
                       lookup, startup >>
  ELSE /\ holding_down' = r.holding_down
       /\ key_was_just_pressed' = r.key_was_just_pressed
       /\ log' = log \o r.out
       /\ trace' = Append(trace, [kind |-> kind, code |-> e.code, out |-> r.out])
       /\ last' = << [type_ |-> e.type_, value |-> e.value, out |-> r.out] >>
       /\ UNCHANGED << panicked, lookup, startup >>

\* One iteration on a key event whose value is a press.
Press(e) ==
  /\ Reading
  /\ \E n \in ReadResults : Read(n)
  /\ is_key_event(e.type_)
  /\ is_key_press(e.value)
  /\ Apply(e, "Press", PressStep(holding_down, key_was_just_pressed, e.code))

\* One iteration on a key event whose value is a release.
Release(e) ==
  /\ Reading
  /\ \E n \in ReadResults : Read(n)
  /\ is_key_event(e.type_)
  /\ ~is_key_press(e.value)
  /\ is_key_release(e.value)
  /\ Apply(e, "Release", ReleaseStep(holding_down, key_was_just_pressed, e.code))

\* One iteration on any other event: neither branch is taken.
Skip(e) ==
  /\ Reading
  /\ \E n \in ReadResults : Read(n)
  /\ \/ ~is_key_event(e.type_)
     \/ ~is_key_press(e.value) /\ ~is_key_release(e.value)
  /\ last' = << [type_ |-> e.type_, value |-> e.value, out |-> << >>] >>
  /\ UNCHANGED << holding_down, key_was_just_pressed, log, panicked, trace,
                  lookup, startup >>

\* One iteration whose read fails or is short: the process panics before
\* buf is taken for an event.
ReadFail(n) ==
  /\ Reading
  /\ ~ReadOk(n)
  /\ num_bytes' = << n >>
  /\ panicked' = TRUE
  /\ UNCHANGED << holding_down, key_was_just_pressed, log, trace, last,
                  lookup, startup >>

Next ==
  \/ \E e \in InputEvent : Press(e) \/ Release(e) \/ Skip(e)
  \/ \E n \in ReadResults : ReadFail(n)

Spec == Init /\ [][Next]_vars

TypeOK ==
  /\ holding_down \in Seq(Codes)
  /\ key_was_just_pressed \in BOOLEAN
  /\ panicked \in BOOLEAN
  /\ Len(trace) <= MaxEvents
  /\ Len(last) <= 1

(* ------------------------------------------------------------------ *)
(* get_key_text over every key code                                   *)
(* ------------------------------------------------------------------ *)
\* Any u16 may be looked up.
LookupInit ==
  /\ holding_down = << >>
  /\ key_was_just_pressed = FALSE
  /\ log = << >>
  /\ panicked = FALSE
  /\ trace = << >>
  /\ last = << >>
  /\ num_bytes = << >>
  /\ startup = << >>
  /\ \E code \in 0..MaxCode :
       lookup = << [code |-> code, done |-> FALSE, text |-> "",
                    panicked |-> FALSE] >>

\* The call get_key_text(code).
Lookup ==
  /\ Len(lookup) = 1
  /\ ~lookup[1].done
  /\ lookup' = << LookupResult(lookup[1].code) >>
  /\ UNCHANGED << loopvars, startup >>

LookupNext == Lookup

SpecLookup == LookupInit /\ [][LookupNext]_vars

(* ------------------------------------------------------------------ *)
(* The start of the process: main.rs, main down to the loop           *)
(* ------------------------------------------------------------------ *)
\* Most lines the device detection pipeline is given to print.
MaxDevices == 2

\* The event names grep can print, one per line.
EventNames == {"event0", "event1"}

\* A device file name: the directory and the rest, kept apart.
DeviceFile(file) == << "/dev/input/", file >>

\* Sequences over S of length at most n.
SeqUpTo(S, n) == UNION {[1..k -> S] : k \in 0..n}

\* res_str.trim().split('\n'): the lines of the output; splitting the empty
\* string yields one empty piece.
split_lines(lines) == IF lines = << >> THEN << "" >> ELSE lines

\* get_keyboard_device_filenames, given the lines the pipeline printed.
get_keyboard_device_filenames(lines) ==
  [i \in 1..Len(split_lines(lines)) |-> DeviceFile(split_lines(lines)[i])]

\* get_default_device: the one file name, or a panic.
get_default_device(lines) ==
  LET filenames == get_keyboard_device_filenames(lines) IN
  IF Len(filenames) = 1
  THEN [ok |-> TRUE, device |-> << filenames[1] >>]
  ELSE [ok |-> FALSE, device |-> << >>]

\* The process starts with any effective user id, any command line and any
\* output of the detection pipeline.
StartupInit ==
  /\ holding_down = << >>
  /\ key_was_just_pressed = FALSE
  /\ log = << >>
  /\ panicked = FALSE
  /\ trace = << >>
  /\ last = << >>
  /\ num_bytes = << >>
  /\ lookup = << >>
  /\ \E euid \in {0, 1000}, valid \in BOOLEAN, h \in BOOLEAN, v \in BOOLEAN,
        d \in {<< >>, << DeviceFile("event7") >>}, sh_ok \in BOOLEAN,
        lines \in SeqUpTo(EventNames, MaxDevices) :
       startup = << [stage |-> "start", euid |-> euid, valid |-> valid,
                     opt_h |-> h, opt_v |-> v, opt_d |-> d, sh_ok |-> sh_ok,
                     lines |-> lines, device_file |-> << >>,
                     died_in |-> ""] >>

\* The process stops on a panic raised in the named function.
Die(where) ==
  /\ startup' = << [startup[1] EXCEPT !.stage = "panicked", !.died_in = where] >>
  /\ panicked' = TRUE
  /\ UNCHANGED << holding_down, key_was_just_pressed, log, trace, last,
                  num_bytes, lookup >>

\* The process moves on to the next stage.
Reach(stage, device) ==
  /\ startup' = << [startup[1] EXCEPT !.stage = stage, !.device_file = device] >>
  /\ UNCHANGED << loopvars, lookup >>

\* root_check
RootCheck ==
  /\ Len(startup) = 1
  /\ startup[1].stage = "start"
  /\ IF startup[1].euid # 0
     THEN Die("root_check")
     ELSE Reach("rooted", << >>)

\* parse_args, with the default device looked up when -d is absent.
ParseArgs ==
  /\ Len(startup) = 1
  /\ startup[1].stage = "rooted"
  /\ LET a == startup[1] IN
     IF ~a.valid THEN Die("parse_args")
     ELSE IF a.opt_h \/ a.opt_v THEN Reach("exited", << >>)
     ELSE IF a.opt_d # << >> THEN Reach("configured", a.opt_d)
     ELSE IF ~a.sh_ok THEN Die("get_keyboard_device_filenames")
     ELSE IF ~get_default_device(a.lines).ok THEN Die("get_default_device")
     ELSE Reach("configured", get_default_device(a.lines).device)

\* The log file is opened for appending, and the system lets it or not.
OpenLog(ok) ==
  /\ Len(startup) = 1
  /\ startup[1].stage = "configured"
  /\ IF ok THEN Reach("log_opened", startup[1].device_file)
           ELSE Die("open_log")

\* The device file is opened, and the system lets it or not; the loop
\* starts reading events after it.
OpenDevice(ok) ==
  /\ Len(startup) = 1
  /\ startup[1].stage = "log_opened"
  /\ IF ok THEN Reach("loop", startup[1].device_file)
           ELSE Die("open_device")

StartupNext ==
  \/ RootCheck
  \/ ParseArgs
  \/ \E ok \in BOOLEAN : OpenLog(ok)
  \/ \E ok \in BOOLEAN : OpenDevice(ok)

SpecStartup == StartupInit /\ [][StartupNext]_vars

(* ------------------------------------------------------------------ *)
(* Vocabulary of the properties                                       *)
(* ------------------------------------------------------------------ *)
\* The raw event is a key press / a key release, read off its fields.
EvPress(e) == e.type_ = EV_KEY /\ e.value = KEY_PRESS

EvRelease(e) == e.type_ = EV_KEY /\ e.value = KEY_RELEASE

\* The step just taken processed a press or release event.
KeyStep == Len(trace') = Len(trace) + 1 /\ Len(last') = 1

\* The key code of the press or release a KeyStep processed.
StepCode == trace'[Len(trace')].code

\* The log line with the given sign for the given key.
Line(sign, code) == [sign |-> sign, code |-> code, text |-> get_key_text(code)]

Held(h, code) == \E i \in 1..Len(h) : h[i] = code

NoDup(h) == \A i, j \in 1..Len(h) : i # j => h[i] # h[j]

\* The press and release events processed so far are exactly evs, a
\* sequence of << kind, code >> pairs.
TraceIs(evs) ==
  /\ Len(trace) = Len(evs)
  /\ \A i \in 1..Len(evs) :
       trace[i].kind = evs[i][1] /\ trace[i].code = evs[i][2]

\* C1: in every reachable state, a Press(X) immediately followed by a
\* Release(X) makes the Release write exactly one line, the combined
\* press-and-release line of X.
C1_PressReleaseCoalesced ==
  [][ ( /\ KeyStep
        /\ Len(last) = 1
        /\ EvPress(last[1])
        /\ EvRelease(last'[1])
        /\ StepCode = trace[Len(trace)].code )
      => last'[1].out = << Line(PressReleaseSign, StepCode) >> ]_vars

\* C2: a combined press-and-release line for key X is written only by a
\* Release(X) whose preceding press or release event, of any key and orphan
\* releases included, is the Press(X) itself.
C2_CoalescedOnlyWhenAdjacent ==
  \A i \in 1..Len(trace) :
    (\E k \in 1..Len(trace[i].out) : trace[i].out[k].sign = PressReleaseSign)
    => /\ trace[i].kind = "Release"
       /\ i > 1
       /\ trace[i - 1].kind = "Press"
       /\ trace[i - 1].code = trace[i].code

\* C3: from the initial state, Press(A), Press(B), Release(B), Release(A)
\* with A # B writes exactly +A, (combined) B, -A: the first line at
\* Press(B), the second at Release(B), the third at Release(A).
C3_NestedRelease ==
  \A A, B \in Codes :
    ( /\ A # B
      /\ TraceIs(<< << "Press", A >>, << "Press", B >>,
                    << "Release", B >>, << "Release", A >> >>) )
    => /\ log = << Line(PressSign, A), Line(PressReleaseSign, B),
                   Line(ReleaseSign, A) >>
       /\ trace[1].out = << >>
       /\ trace[2].out = << Line(PressSign, A) >>
       /\ trace[3].out = << Line(PressReleaseSign, B) >>
       /\ trace[4].out = << Line(ReleaseSign, A) >>

C3_Witness ==
  /\ TraceIs(<< << "Press", 30 >>, << "Press", 42 >>,
                << "Release", 42 >>, << "Release", 30 >> >>)
  /\ Len(log) = 3
  /\ log[2].sign = PressReleaseSign

\* C4: from the initial state, Press(A), Press(B), Release(A), Release(B)
\* with A # B writes exactly +A, +B, -A, -B: Release(A) writes +B and then
\* -A, and the last Release(B) writes a plain -B.
C4_OutOfOrderRelease ==
  \A A, B \in Codes :
    ( /\ A # B
      /\ TraceIs(<< << "Press", A >>, << "Press", B >>,
                    << "Release", A >>, << "Release", B >> >>) )
    => /\ log = << Line(PressSign, A), Line(PressSign, B),
                   Line(ReleaseSign, A), Line(ReleaseSign, B) >>
       /\ trace[1].out = << >>
       /\ trace[2].out = << Line(PressSign, A) >>
       /\ trace[3].out = << Line(PressSign, B), Line(ReleaseSign, A) >>
       /\ trace[4].out = << Line(ReleaseSign, B) >>

C4_Witness ==
  /\ TraceIs(<< << "Press", 42 >>, << "Press", 300 >>,
                << "Release", 42 >>, << "Release", 300 >> >>)
  /\ Len(log) = 4
  /\ log[4].sign = ReleaseSign

\* C5: in every reachable state, a Release(Z) with Z not in holding_down
\* writes exactly the one orphan line of Z and leaves holding_down and
\* key_was_just_pressed as they were.
C5_OrphanRelease ==
  [][ ( /\ KeyStep
        /\ EvRelease(last'[1])
        /\ ~Held(holding_down, StepCode) )
      => /\ last'[1].out = << Line(OrphanSign, StepCode) >>
         /\ holding_down' = holding_down
         /\ key_was_just_pressed' = key_was_just_pressed ]_vars

C5_Witness ==
  /\ Len(last) = 1
  /\ EvRelease(last[1])
  /\ Len(last[1].out) = 1
  /\ last[1].out[1].sign = OrphanSign
  /\ key_was_just_pressed
  /\ Len(holding_down) = 2

\* The events so far are n presses of pairwise distinct codes followed by
\* releases of the same n codes in some order.
Balanced ==
  \E n \in 1..Cardinality(Codes) :
    /\ Len(trace) = 2 * n
    /\ \A i \in 1..n : trace[i].kind = "Press" /\ trace[n + i].kind = "Release"
    /\ \A i, j \in 1..n : i # j => trace[i].code # trace[j].code
    /\ {trace[i].code : i \in 1..n} = {trace[n + i].code : i \in 1..n}

\* C6: after n presses of pairwise distinct codes followed by the releases
\* of the same codes in any order, holding_down is empty and
\* key_was_just_pressed is false.
C6_BalancedDrains ==
  Balanced => (holding_down = << >> /\ key_was_just_pressed = FALSE)

\* Two keys, the older one released first.
C6_Witness ==
  /\ Balanced
  /\ Len(trace) = 4
  /\ trace[3].code = trace[1].code
  /\ trace[3].out = << Line(PressSign, trace[2].code),
                       Line(ReleaseSign, trace[1].code) >>
  /\ holding_down = << >>

\* C7 as stated: a Press writes at most one line, a + for the previous top of
\* holding_down and never a line for the key being pressed; a Release
\* writes one or two lines, and two are + for the current top followed by -
\* for the released key.
C7_LinesPerEvent_Original ==
  [][ KeyStep =>
      LET e == [type_ |-> last'[1].type_, value |-> last'[1].value,
                code |-> StepCode]
          out == last'[1].out
          h == holding_down
      IN /\ EvPress(e) =>
              /\ Len(out) <= 1
              /\ Len(out) = 1 =>
                   /\ h # << >>
                   /\ out[1] = Line(PressSign, h[Len(h)])
                   /\ out[1].code # e.code
         /\ EvRelease(e) =>
              /\ Len(out) \in {1, 2}
              /\ Len(out) = 2 =>
                   /\ out[1] = Line(PressSign, h[Len(h)])
                   /\ out[2] = Line(ReleaseSign, e.code) ]_vars

\* C7 (amended): a Press writes at most one line, written exactly when
\* key_was_just_pressed was set, which is the + of the previous top of
\* holding_down; the press itself stays unlogged (the flag is set
\* afterwards), and the line names the pressed key only when that key was
\* already the top.  A Release writes one or two lines, and two are + for
\* the current top followed by - for the released key.
C7_LinesPerEvent ==
  [][ KeyStep =>
      LET e == [type_ |-> last'[1].type_, value |-> last'[1].value,
                code |-> StepCode]
          out == last'[1].out
          h == holding_down
      IN /\ EvPress(e) =>
              /\ Len(out) = (IF key_was_just_pressed THEN 1 ELSE 0)
              /\ Len(out) = 1 =>
                   /\ h # << >>
                   /\ out[1] = Line(PressSign, h[Len(h)])
              /\ key_was_just_pressed'
              /\ holding_down' = Append(h, e.code)
         /\ EvRelease(e) =>
              /\ Len(out) \in {1, 2}
              /\ Len(out) = 2 =>
                   /\ out[1] = Line(PressSign, h[Len(h)])
                   /\ out[2] = Line(ReleaseSign, e.code) ]_vars

\* A press that flushed the press of another key, then a release that
\* wrote two lines.
C7_Witness ==
  /\ Len(trace) >= 3
  /\ trace[2].kind = "Press"
  /\ Len(trace[2].out) = 1
  /\ trace[2].out[1].code # trace[2].code
  /\ trace[3].kind = "Release"
  /\ Len(trace[3].out) = 2

\* C8 as stated: holding_down never holds the same key code twice, whatever
\* the stream of presses and releases.
C8_NoDuplicates_Original == NoDup(holding_down)

\* No key is pressed again before it is released: the press or release
\* event of the same code that precedes a press, if any, is a release.
NoRepeatedPress ==
  \A i \in 1..Len(trace) :
    trace[i].kind = "Press" =>
      \A j \in 1..(i - 1) :
        (trace[j].code = trace[i].code /\ trace[j].kind = "Press")
        => \E k \in (j + 1)..(i - 1) :
             trace[k].code = trace[i].code /\ trace[k].kind = "Release"

\* C8 (amended): holding_down holds no key code twice as long as no key is
\* pressed again before it is released.
C8_NoDuplicates == NoRepeatedPress => NoDup(holding_down)

\* A key pressed, released out of order and pressed again.
C8_Witness ==
  /\ NoRepeatedPress
  /\ Len(trace) >= 4
  /\ trace[1].kind = "Press"
  /\ trace[2].kind = "Press"
  /\ trace[3].kind = "Release" /\ trace[3].code = trace[1].code
  /\ trace[4].kind = "Press" /\ trace[4].code = trace[1].code
  /\ Len(holding_down) = 2

\* The press at position i of trace has had its line written: a later
\* event wrote a + or a combined line for its key.
PressLogged(i) ==
  \E j \in (i + 1)..Len(trace) :
    \E k \in 1..Len(trace[j].out) :
      /\ trace[j].out[k].sign \in {PressSign, PressReleaseSign}
      /\ trace[j].out[k].code = trace[i].code

\* C9: key_was_just_pressed is true exactly when the most recent press
\* processed so far has not yet had its + or combined line written.
C9_FlagMeansPendingPress ==
  key_was_just_pressed <=>
    \E i \in 1..Len(trace) :
      /\ trace[i].kind = "Press"
      /\ \A j \in (i + 1)..Len(trace) : trace[j].kind # "Press"
      /\ ~PressLogged(i)

\* The flag is still set after an orphan release followed the last press.
C9_Witness ==
  /\ key_was_just_pressed
  /\ Len(trace) >= 3
  /\ trace[Len(trace) - 1].kind = "Press"
  /\ trace[Len(trace)].kind = "Release"

\* C10: an event that is not a key event, or a key event whose value is
\* neither press nor release, writes no line and leaves holding_down and
\* key_was_just_pressed as they were.
C10_OtherEventsIgnored ==
  [][ ( /\ Len(last') = 1
        /\ last' # last
        /\ \/ last'[1].type_ # EV_KEY
           \/ last'[1].value \notin {KEY_PRESS, KEY_RELEASE} )
      => /\ last'[1].out = << >>
         /\ log' = log
         /\ holding_down' = holding_down
         /\ key_was_just_pressed' = key_was_just_pressed ]_vars

\* An auto-repeat of a held key was read while its press was pending.
C10_Witness ==
  /\ Len(last) = 1
  /\ last[1].type_ = EV_KEY
  /\ last[1].value = 2
  /\ key_was_just_pressed
  /\ holding_down # << >>
  /\ log # << >>

\* C11: get_key_text returns "<UK>" for every 16-bit code from 127 up and
\* indexes the table out of bounds for no code in 0..65535.
C11_LookupTotal ==
  \A i \in 1..Len(lookup) :
    lookup[i].done =>
      /\ ~lookup[i].panicked
      /\ lookup[i].code >= 127 => lookup[i].text = "<UK>"

\* The first code past the table has been looked up.
C11_Witness ==
  /\ Len(lookup) = 1
  /\ lookup[1].done
  /\ lookup[1].code = 127
  /\ lookup[1].text = "<UK>"

\* C12: with no device on the command line, the choice of the default
\* device is fatal unless exactly one device was detected: with none and
\* with more than one the process stops in the choice, so that the device is
\* never opened and the loop never reads; with exactly one it goes on.
C12_DefaultDeviceFatal ==
  \A i \in 1..Len(startup) :
    LET a == startup[i] IN
    ( /\ a.euid = 0 /\ a.valid /\ ~a.opt_h /\ ~a.opt_v
      /\ a.opt_d = << >>
      /\ a.stage \notin {"start", "rooted"} )
    => IF Len(a.lines) = 1 /\ a.sh_ok
       THEN a.died_in \notin {"get_default_device",
                              "get_keyboard_device_filenames"}
       ELSE /\ a.stage = "panicked"
            /\ a.died_in \in {"get_default_device",
                              "get_keyboard_device_filenames"}

\* C13: a read that fails or returns another byte count than the size of
\* a whole record is fatal: the process panics, nothing is taken for an
\* event, no line is written and nothing changes, then or afterwards.
C13_BadReadFatal ==
  [][ /\ ( Len(num_bytes') = 1 /\ num_bytes'[1] # 24 )
         => /\ panicked'
            /\ UNCHANGED << holding_down, key_was_just_pressed, log, trace,
                            last >>
      /\ panicked => UNCHANGED vars ]_vars

\* A part of a record was read while a press was pending.
C13_Witness ==
  /\ num_bytes = << 8 >>
  /\ panicked
  /\ key_was_just_pressed
  /\ Len(holding_down) = 2
  /\ Len(log) = 1

\* The 1-based place of the first occurrence of code in h.
FirstAt(h, code) ==
  CHOOSE i \in 1..Len(h) : h[i] = code /\ \A j \in 1..(i - 1) : h[j] # code

\* h with the entry at the 1-based place p left out.
Without(h, p) ==
  [i \in 1..(Len(h) - 1) |-> IF i < p THEN h[i] ELSE h[i + 1]]

\* C14: a Release whose code is found in holding_down at a place other
\* than the last removes exactly that entry, keeps the others in their
\* order, and leaves key_was_just_pressed false.
C14_OutOfOrderRemoval ==
  [][ ( /\ KeyStep
        /\ EvRelease(last'[1])
        /\ Held(holding_down, StepCode)
        /\ FirstAt(holding_down, StepCode) < Len(holding_down) )
      => /\ holding_down' = Without(holding_down, FirstAt(holding_down, StepCode))
         /\ key_was_just_pressed' = FALSE ]_vars

\* The middle one of three held keys was released while the press of the
\* top one was pending.
C14_Witness ==
  /\ Len(trace) = 4
  /\ trace[4].kind = "Release"
  /\ trace[4].code = trace[2].code
  /\ Len(trace[4].out) = 2
  /\ Len(holding_down) = 2
  /\ holding_down = << trace[1].code, trace[3].code >>
  /\ ~key_was_just_pressed

\* C15: the loop never panics in the state machine: whenever
\* key_was_just_pressed is set holding_down is not empty, so that both
\* holding_down.last().unwrap() find a top entry, and a panic of the loop
\* is always the panic of a failed or short read.
C15_NoUnwrapPanic ==
  /\ key_was_just_pressed => holding_down # << >>
  /\ panicked => (Len(num_bytes) = 1 /\ num_bytes[1] # 24)

\* Both unwraps have run: a press flushed the previous top, then an
\* out-of-order release flushed the top, and the last key was released.
C15_Witness ==
  /\ Len(trace) = 4
  /\ trace[2].kind = "Press" /\ Len(trace[2].out) = 1
  /\ trace[3].kind = "Release" /\ Len(trace[3].out) = 2
  /\ trace[4].kind = "Release"
  /\ holding_down = << >>
  /\ ~panicked

\* The lines of the log with one of the given signs, for the given code.
Lines(signs, code) ==
  {k \in 1..Len(log) : log[k].sign \in signs /\ log[k].code = code}

\* The presses of the given code processed so far.
Presses(code) ==
  {i \in 1..Len(trace) : trace[i].kind = "Press" /\ trace[i].code = code}

\* The press of the given code is the one still waiting for its line.
Pending(code) ==
  /\ key_was_just_pressed
  /\ holding_down # << >>
  /\ holding_down[Len(holding_down)] = code

\* C16: no press is lost or logged twice: the + and combined lines, plus one
\* while key_was_just_pressed is set, are as many as the presses processed,
\* for every key code (the pending press being the one of the top key) and
\* so in total.
C16_EveryPressLoggedOnce ==
  /\ \A c \in Codes :
       Cardinality(Lines({PressSign, PressReleaseSign}, c))
         + (IF Pending(c) THEN 1 ELSE 0)
       = Cardinality(Presses(c))
  /\ Cardinality({k \in 1..Len(log) :
                    log[k].sign \in {PressSign, PressReleaseSign}})
       + (IF key_was_just_pressed THEN 1 ELSE 0)
     = Cardinality({i \in 1..Len(trace) : trace[i].kind = "Press"})

\* Presses logged as +, as a combined line, and one still pending.
C16_Witness ==
  /\ key_was_just_pressed
  /\ \E k \in 1..Len(log) : log[k].sign = PressSign
  /\ \E k \in 1..Len(log) : log[k].sign = PressReleaseSign
  /\ Cardinality({i \in 1..Len(trace) : trace[i].kind = "Press"}) = 4

\* C17: in every prefix of the log and for every key code, the - lines are
\* at most as many as the + lines.
C17_ReleaseAfterPress ==
  \A n \in 0..Len(log) :
    \A c \in Codes :
      Cardinality({k \in 1..n : log[k].sign = ReleaseSign /\ log[k].code = c})
      <= Cardinality({k \in 1..n : log[k].sign = PressSign /\ log[k].code = c})

\* A key pressed twice and released twice, all four lines written.
C17_Witness ==
  /\ Len(log) = 4
  /\ log[1].sign = PressSign /\ log[2].sign = PressSign
  /\ log[3].sign = ReleaseSign /\ log[4].sign = ReleaseSign
  /\ log[1].code = log[4].code
  /\ log[2].code = log[3].code
  /\ log[1].code = log[2].code

====
